---- MODULE Spec2Model ----
(***************************************************************************)
(* A model of the two Tauri back ends of the repository:                   *)
(*   tools/nuke-desktop/src-tauri/src/main.rs   (scan_directories,         *)
(*       extract_vehicle_hints, normalize_make, sync_to_cloud)             *)
(*   nuke-local/desktop-app/src-tauri/src/main.rs  (process_document,      *)
(*       configure_supabase, sync_to_supabase, AppState)                   *)
(* Each command is a small state machine over its own variables; the       *)
(* specifications SpecSync, SpecScan, SpecHints, SpecDoc and SpecSupa run  *)
(* one command family each and leave the other variables at rest.          *)
(* Text is a sequence of one-character strings, so that lower-casing,      *)
(* substring search and the two regular expressions are computed.          *)
(***************************************************************************)
EXTENDS Integers, Sequences, FiniteSets, TLC

VARIABLES
    \* sync_to_cloud (nuke-desktop)
    files, batch_size, spc, pos, synced, failed, errors, requests, report,
    \* extract_vehicle_hints (nuke-desktop)
    hpath, full_path, hpc, hint, hresult,
    \* scan_directories (nuke-desktop)
    config, scpc, root, stack, yielded, results,
    \* process_document (nuke-local)
    raw, dpc, dresult,
    \* AppState, configure_supabase, sync_to_supabase (nuke-local)
    supabase_url, supabase_key, url_lock, key_lock, procs, ncmds, completed

syncVars == <<files, batch_size, spc, pos, synced, failed, errors, requests, report>>
hintVars == <<hpath, full_path, hpc, hint, hresult>>

scanVars == <<config, scpc, root, stack, yielded, results>>

docVars == <<raw, dpc, dresult>>

supaVars == <<supabase_url, supabase_key, url_lock, key_lock, procs, ncmds, completed>>

vars == <<syncVars, hintVars, scanVars, docVars, supaVars>>

\* Option<T>: None is the empty sequence, Some(x) the one-element sequence.
None == <<>>
Some(x) == <<x>>

\* A command family that is not running: its variables keep these values.
SyncIdle ==
    /\ files = <<>> /\ batch_size = 1 /\ spc = "idle" /\ pos = 1 /\ synced = 0
    /\ failed = 0 /\ errors = <<>> /\ requests = <<>> /\ report = <<>>

HintIdle ==
    hpath = <<>> /\ full_path = <<>> /\ hpc = "idle" /\ hint = <<>> /\ hresult = <<>>

ScanIdle ==
    /\ config = <<>> /\ scpc = "idle" /\ root = 1 /\ stack = <<>> /\ yielded = 0
    /\ results = <<>>

DocIdle == raw = <<>> /\ dpc = "idle" /\ dresult = <<>>

SupaIdle ==
    /\ supabase_url = <<>> /\ supabase_key = <<>> /\ url_lock = 0 /\ key_lock = 0
    /\ procs = <<>> /\ ncmds = 0 /\ completed = 0

\* What each specification leaves at rest.
SyncOthersIdle == HintIdle /\ ScanIdle /\ DocIdle /\ SupaIdle
syncOthers == <<hintVars, scanVars, docVars, supaVars>>
HintOthersIdle == SyncIdle /\ ScanIdle /\ DocIdle /\ SupaIdle
hintOthers == <<syncVars, scanVars, docVars, supaVars>>
ScanOthersIdle == SyncIdle /\ HintIdle /\ DocIdle /\ SupaIdle
scanOthers == <<syncVars, hintVars, docVars, supaVars>>
DocOthersIdle == SyncIdle /\ HintIdle /\ ScanIdle /\ SupaIdle
docOthers == <<syncVars, hintVars, scanVars, supaVars>>
SupaOthersIdle == SyncIdle /\ HintIdle /\ ScanIdle /\ DocIdle
supaOthers == <<syncVars, hintVars, scanVars, docVars>>

(***************************************************************************)
(* Bounds of the model.                                                    *)
(***************************************************************************)
MaxFiles == 7
MaxBatch == 3
MaxTokens == 3
MaxEntries == 3
MaxRawLen == 5
NumProcs == 2
MaxCommands == 3
MaxExtractions == 1

Min(a, b) == IF a < b THEN a ELSE b

(***************************************************************************)
(* Text.  A string is a sequence of one-character strings.                 *)
(***************************************************************************)
UpperLetters == <<"A", "B", "C", "D", "E", "F", "G", "H", "I", "J", "K", "L", "M", "N", "O", "P", "Q", "R", "S", "T", "U", "V", "W", "X", "Y", "Z">>
LowerLetters == <<"a", "b", "c", "d", "e", "f", "g", "h", "i", "j", "k", "l", "m", "n", "o", "p", "q", "r", "s", "t", "u", "v", "w", "x", "y", "z">>
DigitChars == {"0", "1", "2", "3", "4", "5", "6", "7", "8", "9"}

Range(s) == {s[i] : i \in 1..Len(s)}

\* char::to_lowercase / char::to_uppercase on the characters used here.
LowerOf == [c \in Range(UpperLetters) |->
              LowerLetters[CHOOSE i \in 1..Len(UpperLetters) : UpperLetters[i] = c]]
UpperOf == [c \in Range(LowerLetters) |->
              UpperLetters[CHOOSE i \in 1..Len(LowerLetters) : LowerLetters[i] = c]]

ToLowerChar(c) == IF c \in DOMAIN LowerOf THEN LowerOf[c] ELSE c
ToUpperChar(c) == IF c \in DOMAIN UpperOf THEN UpperOf[c] ELSE c

\* str::to_lowercase, str::to_uppercase
RECURSIVE ToLowercase(_)
ToLowercase(s) ==
    IF s = <<>> THEN <<>> ELSE <<ToLowerChar(Head(s))>> \o ToLowercase(Tail(s))

RECURSIVE ToUppercase(_)
ToUppercase(s) ==
    IF s = <<>> THEN <<>> ELSE <<ToUpperChar(Head(s))>> \o ToUppercase(Tail(s))

\* str::contains(&str)
Contains(s, t) ==
    \E i \in 1..(Len(s) - Len(t) + 1) : \A j \in 1..Len(t) : s[i + j - 1] = t[j]

\* str::starts_with('.')
StartsWithDot(s) == Len(s) > 0 /\ s[1] = "."

\* The regex crate's \w on these characters, and \b after the first i characters.
WordChars == Range(UpperLetters) \cup Range(LowerLetters) \cup DigitChars \cup {"_"}
IsWordChar(c) == c \in WordChars

WordBoundary(s, i) ==
    (i >= 1 /\ i <= Len(s) /\ IsWordChar(s[i])) # (i + 1 <= Len(s) /\ IsWordChar(s[i + 1]))

(***************************************************************************)
(* extract_vehicle_hints and normalize_make.                               *)
(***************************************************************************)
\* let makes = vec![..]
makes == <<
    <<"c", "h", "e", "v", "r", "o", "l", "e", "t">>,
    <<"c", "h", "e", "v", "y">>,
    <<"f", "o", "r", "d">>,
    <<"d", "o", "d", "g", "e">>,
    <<"g", "m", "c">>,
    <<"t", "o", "y", "o", "t", "a">>,
    <<"h", "o", "n", "d", "a">>,
    <<"b", "m", "w">>,
    <<"m", "e", "r", "c", "e", "d", "e", "s">>,
    <<"p", "o", "r", "s", "c", "h", "e">>,
    <<"f", "e", "r", "r", "a", "r", "i">>,
    <<"l", "a", "m", "b", "o", "r", "g", "h", "i", "n", "i">>,
    <<"a", "u", "d", "i">>,
    <<"v", "o", "l", "k", "s", "w", "a", "g", "e", "n">>,
    <<"v", "w">>,
    <<"j", "e", "e", "p">>,
    <<"r", "a", "m">>,
    <<"n", "i", "s", "s", "a", "n">>,
    <<"m", "a", "z", "d", "a">>,
    <<"s", "u", "b", "a", "r", "u">> >>

\* let models = vec![..]
models == <<
    <<"c", "1", "0">>,
    <<"c", "2", "0">>,
    <<"k", "1", "0">>,
    <<"k", "2", "0">>,
    <<"k", "5">>,
    <<"b", "l", "a", "z", "e", "r">>,
    <<"s", "u", "b", "u", "r", "b", "a", "n">>,
    <<"s", "i", "l", "v", "e", "r", "a", "d", "o">>,
    <<"m", "u", "s", "t", "a", "n", "g">>,
    <<"f", "1", "5", "0">>,
    <<"f", "-", "1", "5", "0">>,
    <<"c", "a", "m", "a", "r", "o">>,
    <<"c", "o", "r", "v", "e", "t", "t", "e">>,
    <<"c", "h", "a", "l", "l", "e", "n", "g", "e", "r">>,
    <<"c", "h", "a", "r", "g", "e", "r">>,
    <<"9", "1", "1">>,
    <<"9", "4", "4">>,
    <<"c", "a", "r", "r", "e", "r", "a">>,
    <<"c", "i", "v", "i", "c">>,
    <<"a", "c", "c", "o", "r", "d">>,
    <<"t", "a", "c", "o", "m", "a">>,
    <<"4", "r", "u", "n", "n", "e", "r">>,
    <<"w", "r", "a", "n", "g", "l", "e", "r">>,
    <<"b", "r", "o", "n", "c", "o">> >>

\* The confidence weights, in tenths, and the length of a VIN.
YearWeight == 3
MakeWeight == 3
ModelWeight == 3
VinWeight == 5
VinLen == 17

SetMin(S) == CHOOSE x \in S : \A y \in S : x <= y

\* let full_path = path.to_string_lossy().to_lowercase();
FullPath(path) == ToLowercase(path)

\* year_regex = \b(19[0-9]{2}|20[0-3][0-9])\b matches the 4 characters from i.
YearAt(s, i) ==
    /\ i >= 1 /\ i + 3 <= Len(s)
    /\ WordBoundary(s, i - 1) /\ WordBoundary(s, i + 3)
    /\ \/ (s[i] = "1" /\ s[i + 1] = "9" /\ s[i + 2] \in DigitChars /\ s[i + 3] \in DigitChars)
       \/ (s[i] = "2" /\ s[i + 1] = "0" /\ s[i + 2] \in {"0", "1", "2", "3"}
              /\ s[i + 3] \in DigitChars)

\* year_regex.captures(&full_path): the leftmost match, cap[1].
YearMatch(s) ==
    LET I == {i \in 1..Len(s) : YearAt(s, i)}
    IN  IF I = {} THEN None ELSE Some(SubSeq(s, SetMin(I), SetMin(I) + 3))

VinCharsAnyCase == Range(UpperLetters) \cup Range(LowerLetters) \cup DigitChars

\* The class [A-HJ-NPR-Z0-9] of vin_regex.
VinChars == (Range(UpperLetters) \ {"I", "O", "Q"}) \cup DigitChars

\* vin_regex = \b[A-HJ-NPR-Z0-9]{17}\b matches the 17 characters from i.
VinAt(s, i) ==
    /\ i >= 1 /\ i + VinLen - 1 <= Len(s)
    /\ WordBoundary(s, i - 1) /\ WordBoundary(s, i + VinLen - 1)
    /\ \A j \in i..(i + VinLen - 1) : s[j] \in VinChars

\* vin_regex.captures(&full_path): the leftmost match, cap[0].
VinMatch(s) ==
    LET I == {i \in 1..Len(s) : VinAt(s, i)}
    IN  IF I = {} THEN None ELSE Some(SubSeq(s, SetMin(I), SetMin(I) + VinLen - 1))

\* for x in &list { if full_path.contains(x) { .. break; } }: the first hit.
FirstContained(s, list) ==
    LET K == {k \in 1..Len(list) : Contains(s, list[k])}
    IN  IF K = {} THEN None ELSE Some(list[SetMin(K)])

Chevrolet == <<"C", "h", "e", "v", "r", "o", "l", "e", "t">>
Volkswagen == <<"V", "o", "l", "k", "s", "w", "a", "g", "e", "n">>

normalize_make(make) ==
    CASE make = <<"c", "h", "e", "v", "y">> -> Chevrolet
      [] make = <<"v", "w">> -> Volkswagen
      [] OTHER -> IF make = <<>> THEN <<>>
                  ELSE <<ToUpperChar(Head(make))>> \o Tail(make)

\* hint.year = Some(..); hint.confidence += 0.3;  and the like.
WithYear(h, y) == [h EXCEPT !.year = Some(y), !.confidence = @ + YearWeight]

WithMakeUnscored(h, m) == [h EXCEPT !.make = Some(normalize_make(m))]

WithMake(h, m) ==
    [h EXCEPT !.make = Some(normalize_make(m)), !.confidence = @ + MakeWeight]

WithModel(h, m) ==
    [h EXCEPT !.model = Some(ToUppercase(m)), !.confidence = @ + ModelWeight]

WithVin(h, v) == [h EXCEPT !.vin = Some(v), !.confidence = @ + VinWeight]

\* let mut hint = VehicleHint { .. };
EmptyHint ==
    [year |-> None, make |-> None, model |-> None, vin |-> None,
     confidence |-> 0, source |-> "filename"]

\* The whole function, as one value.
extract_vehicle_hints(path) ==
    LET fp == FullPath(path)
        y == YearMatch(fp)
        mk == FirstContained(fp, makes)
        md == FirstContained(fp, models)
        v == VinMatch(fp)
        h1 == IF y # None THEN WithYear(EmptyHint, y[1]) ELSE EmptyHint
        h2 == IF mk # None THEN WithMake(h1, mk[1]) ELSE h1
        h3 == IF md # None THEN WithModel(h2, md[1]) ELSE h2
        h4 == IF v # None THEN WithVin(h3, v[1]) ELSE h3
    IN  IF h4.confidence > 0 THEN Some(h4) ELSE None

\* The paths tried: a directory part, then 1..MaxTokens tokens joined by "_" or
\* "/", then ".jpg".
Tok1969 == <<"1", "9", "6", "9">>
TokCorvette == <<"C", "o", "r", "v", "e", "t", "t", "e">>
TokChevy == <<"c", "h", "e", "v", "y">>
TokVinMixed == <<"1", "G", "1", "Y", "Y", "2", "2", "G", "9", "6", "5", "1", "0", "9", "8", "7", "6">>
TokVinDigits == <<"1", "2", "3", "4", "5", "6", "7", "8", "9", "0", "1", "2", "3", "4", "5", "6", "7">>
TokVinIOQ == <<"1", "O", "1", "Y", "Q", "2", "2", "I", "9", "6", "5", "1", "0", "9", "8", "7", "6">>
ExtJpg == <<".", "j", "p", "g">>

Tokens == {Tok1969, TokCorvette, TokChevy, TokVinMixed, TokVinDigits, TokVinIOQ}
Separators == {<<"_">>, <<"/">>}
DirParts == {<<"/">>, <<"/", "F", "o", "r", "d", "/">>}

RECURSIVE PathBodies(_)
PathBodies(n) ==
    IF n = 1 THEN Tokens
    ELSE {b \o sep \o t : b \in PathBodies(n - 1), sep \in Separators, t \in Tokens}

HintPaths ==
    {d \o b \o ExtJpg : d \in DirParts, b \in UNION {PathBodies(n) : n \in 1..MaxTokens}}

HintInit ==
    /\ hpath \in HintPaths
    /\ full_path = <<>>
    /\ hpc = "lower"
    /\ hint = EmptyHint
    /\ hresult = None
    /\ HintOthersIdle

\* let full_path = path.to_string_lossy().to_lowercase(); and let mut hint = ..
HintLower ==
    /\ hpc = "lower"
    /\ full_path' = FullPath(hpath)
    /\ hpc' = "year"
    /\ UNCHANGED <<hpath, hint, hresult, hintOthers>>

\* if let Some(cap) = year_regex.captures(&full_path) { .. }
ExtractYear ==
    /\ hpc = "year"
    /\ LET y == YearMatch(full_path)
       IN  hint' = IF y # None THEN WithYear(hint, y[1]) ELSE hint
    /\ hpc' = "make"
    /\ UNCHANGED <<hpath, full_path, hresult, hintOthers>>

\* for make in &makes { .. }
ExtractMake ==
    /\ hpc = "make"
    /\ LET m == FirstContained(full_path, makes)
       IN  hint' = IF m # None THEN WithMake(hint, m[1]) ELSE hint
    /\ hpc' = "model"
    /\ UNCHANGED <<hpath, full_path, hresult, hintOthers>>

\* for model in &models { .. }
ExtractModel ==
    /\ hpc = "model"
    /\ LET m == FirstContained(full_path, models)
       IN  hint' = IF m # None THEN WithModel(hint, m[1]) ELSE hint
    /\ hpc' = "vin"
    /\ UNCHANGED <<hpath, full_path, hresult, hintOthers>>

\* if let Some(cap) = vin_regex.captures(&full_path) { .. }
ExtractVin ==
    /\ hpc = "vin"
    /\ LET v == VinMatch(full_path)
       IN  hint' = IF v # None THEN WithVin(hint, v[1]) ELSE hint
    /\ hpc' = "return"
    /\ UNCHANGED <<hpath, full_path, hresult, hintOthers>>

\* if hint.confidence > 0.0 { Some(hint) } else { None }
HintReturn ==
    /\ hpc = "return"
    /\ hresult' = IF hint.confidence > 0 THEN Some(hint) ELSE None
    /\ hpc' = "done"
    /\ UNCHANGED <<hpath, full_path, hint, hintOthers>>

HintNext == HintLower \/ ExtractYear \/ ExtractMake \/ ExtractModel \/ ExtractVin \/ HintReturn

SpecHints == HintInit /\ [][HintNext]_vars

(***************************************************************************)
(* scan_directories.  WalkDir hands the loop one entry at a time; the file *)
(* system is the environment, so each entry is chosen when it is yielded:  *)
(* a directory below the current one (the walker then descends into it),   *)
(* a file in the current one, or the end of the current directory.         *)
(* stack holds the names from the root to the directory being read.  The   *)
(* size and modified fields of a ScanResult are left out.                  *)
(***************************************************************************)
\* const IMAGE_EXTENSIONS, DOCUMENT_EXTENSIONS, SPREADSHEET_EXTENSIONS
IMAGE_EXTENSIONS == <<<<"j", "p", "g">>, <<"j", "p", "e", "g">>, <<"p", "n", "g">>, <<"g", "i", "f">>, <<"h", "e", "i", "c">>, <<"h", "e", "i", "f">>, <<"w", "e", "b", "p">>>>
DOCUMENT_EXTENSIONS == <<<<"p", "d", "f">>, <<"d", "o", "c">>, <<"d", "o", "c", "x">>, <<"t", "x", "t">>, <<"r", "t", "f">>>>
SPREADSHEET_EXTENSIONS == <<<<"c", "s", "v">>, <<"x", "l", "s", "x">>, <<"x", "l", "s">>, <<"n", "u", "m", "b", "e", "r", "s">>>>

\* The names the file system may hold.
NameJpg == <<"a", ".", "j", "p", "g">>
NameUpperJpg == <<"B", ".", "J", "P", "G">>
NameHiddenPng == <<".", "h", ".", "p", "n", "g">>
NamePdf == <<"d", ".", "p", "d", "f">>
NameCsv == <<"s", ".", "C", "s", "v">>
NameExe == <<"x", ".", "e", "x", "e">>
NameEnv == <<".", "e", "n", "v">>
DirFord == <<"f", "o", "r", "d">>
DirGit == <<".", "g", "i", "t">>
RootPhotos == <<"p", "h", "o", "t", "o", "s">>
RootDocs == <<"d", "o", "c", "s">>

FileNames == {NameJpg, NameUpperJpg, NameHiddenPng, NamePdf, NameCsv, NameExe, NameEnv}
DirNames == {DirFord, DirGit}
RootLists == {<<RootPhotos>>, <<RootPhotos, RootDocs>>}

\* config.max_depth.unwrap_or(10)
DefaultMaxDepth == 10
MaxDepthOf(cfg) == IF cfg.max_depth = None THEN DefaultMaxDepth ELSE cfg.max_depth[1]

SetMax(S) == CHOOSE x \in S : \A y \in S : x >= y

RECURSIVE JoinPath(_)
JoinPath(comps) ==
    IF Len(comps) = 1 THEN comps[1]
    ELSE JoinPath(SubSeq(comps, 1, Len(comps) - 1)) \o <<"/">> \o comps[Len(comps)]

\* Path::file_name: what follows the last "/".
FileName(path) ==
    LET S == {i \in 1..Len(path) : path[i] = "/"}
    IN  IF S = {} THEN path ELSE SubSeq(path, SetMax(S) + 1, Len(path))

\* Path::extension: what follows the last "." of the file name, if that "."
\* is not its first character.
Extension(path) ==
    LET name == FileName(path)
        dots == {i \in 1..Len(name) : name[i] = "."}
    IN  IF dots = {} \/ SetMax(dots) = 1 THEN None
        ELSE Some(SubSeq(name, SetMax(dots) + 1, Len(name)))

\* path.extension().map(|e| e.to_string_lossy().to_lowercase()).unwrap_or_default()
LoweredExtension(path) ==
    IF Extension(path) = None THEN <<>> ELSE ToLowercase(Extension(path)[1])

RawExtension(path) ==
    IF Extension(path) = None THEN <<>> ELSE Extension(path)[1]

InTable(table, ext) == \E k \in 1..Len(table) : table[k] = ext

CategoryIgnoringFlags(cfg, extension) ==
    IF InTable(IMAGE_EXTENSIONS, extension)
        THEN [category |-> "image", include |-> TRUE]
    ELSE IF InTable(DOCUMENT_EXTENSIONS, extension)
        THEN [category |-> "document", include |-> cfg.include_documents]
    ELSE IF InTable(SPREADSHEET_EXTENSIONS, extension)
        THEN [category |-> "spreadsheet", include |-> cfg.include_spreadsheets]
    ELSE [category |-> "unknown", include |-> FALSE]

\* let (category, include) = if IMAGE_EXTENSIONS.contains(..) { .. } ..
CategoryOf(cfg, extension) ==
    IF InTable(IMAGE_EXTENSIONS, extension)
        THEN [category |-> "image", include |-> cfg.include_images]
    ELSE IF InTable(DOCUMENT_EXTENSIONS, extension)
        THEN [category |-> "document", include |-> cfg.include_documents]
    ELSE IF InTable(SPREADSHEET_EXTENSIONS, extension)
        THEN [category |-> "spreadsheet", include |-> cfg.include_spreadsheets]
    ELSE [category |-> "unknown", include |-> FALSE]

\* if !config.include_hidden { if let Some(name) = path.file_name() { .. } }
SkippedAsHidden(cfg, path) == ~cfg.include_hidden /\ StartsWithDot(FileName(path))

\* The body of the loop for one entry: the ScanResult pushed, or None when
\* the entry is passed over by a continue.
LoopBody(cfg, path, is_file, metadata_ok) ==
    IF SkippedAsHidden(cfg, path) THEN None
    ELSE IF ~is_file THEN None
    ELSE LET extension == LoweredExtension(path)
             ci == CategoryOf(cfg, extension)
         IN  IF ~ci.include THEN None
             ELSE IF ~metadata_ok THEN None
             ELSE Some([path |-> path,
                        filename |-> FileName(path),
                        file_type |-> extension,
                        category |-> ci.category,
                        potential_vehicle |-> extract_vehicle_hints(path)])

Pushed(rs, r) == IF r = None THEN rs ELSE Append(rs, r[1])

Configs ==
    [paths : RootLists,
     include_hidden : BOOLEAN,
     max_depth : {None} \cup {Some(k) : k \in 0..MaxEntries},
     include_images : BOOLEAN,
     include_documents : BOOLEAN,
     include_spreadsheets : BOOLEAN]

ScanInit ==
    /\ config \in Configs
    /\ scpc = "roots"
    /\ root = 1
    /\ stack = <<>>
    /\ yielded = 0
    /\ results = <<>>
    /\ ScanOthersIdle

\* for base_path in &config.paths: the walker's first entry is the root itself
\* (depth 0), a directory.
ScanRoot ==
    /\ scpc = "roots"
    /\ root <= Len(config.paths)
    /\ results' = Pushed(results, LoopBody(config, config.paths[root], FALSE, TRUE))
    /\ stack' = <<config.paths[root]>>
    /\ scpc' = "walk"
    /\ UNCHANGED <<config, root, yielded, scanOthers>>

\* The walker yields a directory of the directory being read (depth
\* Len(stack)) and goes on with the entries of that directory.
ScanDir ==
    /\ scpc = "walk"
    /\ yielded < MaxEntries
    /\ Len(stack) <= MaxDepthOf(config)
    /\ \E name \in DirNames :
        /\ results' = Pushed(results,
                             LoopBody(config, JoinPath(Append(stack, name)), FALSE, TRUE))
        /\ stack' = Append(stack, name)
    /\ yielded' = yielded + 1
    /\ UNCHANGED <<config, scpc, root, scanOthers>>

\* The walker yields a regular file of the directory being read.
ScanFile ==
    /\ scpc = "walk"
    /\ yielded < MaxEntries
    /\ Len(stack) <= MaxDepthOf(config)
    /\ \E name \in FileNames, metadata_ok \in BOOLEAN :
        results' = Pushed(results,
                          LoopBody(config, JoinPath(Append(stack, name)), TRUE, metadata_ok))
    /\ yielded' = yielded + 1
    /\ UNCHANGED <<config, scpc, root, stack, scanOthers>>

\* The directory being read has no more entries.
ScanLeave ==
    /\ scpc = "walk"
    /\ stack' = SubSeq(stack, 1, Len(stack) - 1)
    /\ IF Len(stack) = 1
       THEN scpc' = "roots" /\ root' = root + 1
       ELSE UNCHANGED <<scpc, root>>
    /\ UNCHANGED <<config, yielded, results, scanOthers>>

\* Ok(results)
ScanReturn ==
    /\ scpc = "roots"
    /\ root > Len(config.paths)
    /\ scpc' = "done"
    /\ UNCHANGED <<config, root, stack, yielded, results, scanOthers>>

ScanNext == ScanRoot \/ ScanDir \/ ScanFile \/ ScanLeave \/ ScanReturn

SpecScan == ScanInit /\ [][ScanNext]_vars

(***************************************************************************)
(* Properties of scan_directories.                                         *)
(***************************************************************************)
\* The components of a path: the runs between "/".
RECURSIVE Components(_)
Components(path) ==
    LET S == {i \in 1..Len(path) : path[i] = "/"}
    IN  IF S = {} THEN <<path>>
        ELSE Append(Components(SubSeq(path, 1, SetMax(S) - 1)),
                    SubSeq(path, SetMax(S) + 1, Len(path)))

\* C4: with include_hidden = false no returned file has a name that starts
\* with "." and none lies under a directory whose name starts with ".".
C4_HiddenExcluded ==
    (scpc # "idle" /\ ~config.include_hidden) =>
        \A r \in 1..Len(results) :
            \A c \in 1..Len(Components(results[r].path)) :
                ~StartsWithDot(Components(results[r].path)[c])

\* The part of C4 the code keeps: the file's own name is never hidden.
ScanOwnNameNotHidden ==
    (scpc # "idle" /\ ~config.include_hidden) =>
        \A r \in 1..Len(results) : ~StartsWithDot(results[r].filename)

ScanFileUnderHiddenDir ==
    /\ scpc = "done" /\ ~config.include_hidden
    /\ \E r \in 1..Len(results) :
         results[r].path = JoinPath(<<RootPhotos, DirGit, NameJpg>>)

\* The category the tables give a lower-cased extension.
TableCategory(ext) ==
    IF ext \in Range(IMAGE_EXTENSIONS) THEN "image"
    ELSE IF ext \in Range(DOCUMENT_EXTENSIONS) THEN "document"
    ELSE IF ext \in Range(SPREADSHEET_EXTENSIONS) THEN "spreadsheet"
    ELSE "unknown"

FlagOf(cfg, category) ==
    CASE category = "image" -> cfg.include_images
      [] category = "document" -> cfg.include_documents
      [] category = "spreadsheet" -> cfg.include_spreadsheets
      [] OTHER -> FALSE

\* C5: every ScanResult has the category its lower-cased extension has in the
\* three tables, that category is image, document or spreadsheet and its
\* include flag is set; so no file of a switched-off category and no file of
\* an unknown extension is returned, and upper-case extensions count as
\* their lower-case form.
C5_CategoryAdmitted ==
    (scpc # "idle") =>
        \A r \in 1..Len(results) :
            LET x == results[r]
                ext == ToLowercase(RawExtension(x.filename))
            IN  /\ x.file_type = ext
                /\ x.category = TableCategory(ext)
                /\ x.category \in {"image", "document", "spreadsheet"}
                /\ FlagOf(config, x.category)

C5_Witness ==
    /\ scpc = "done"
    /\ config.include_images /\ ~config.include_documents /\ config.include_spreadsheets
    /\ Len(results) = 3
    /\ results[1].filename = NameUpperJpg /\ results[1].category = "image"
    /\ results[2].filename = NameJpg /\ results[2].category = "image"
    /\ results[3].filename = NameCsv /\ results[3].category = "spreadsheet"

(***************************************************************************)
(* process_document.  The response text of the vision service is a         *)
(* sequence of lexical items: "{", "}", ",", prose ("x"), and three        *)
(* members standing for "document_type":"title" (T), "vin":"V1" (V) and    *)
(* "confidence":0.9 (C).  Offsets count items, from 0 as in the code.      *)
(***************************************************************************)
RawItems == {"{", "}", ",", "x", "T", "V", "C"}
Members == {"T", "V", "C"}

RawTexts == UNION {[1..n -> RawItems] : n \in 0..MaxRawLen}

\* parsed.confidence.unwrap_or(0.3), in tenths
DefaultConfidence == 3
MemberConfidence == 9

\* raw.find('{').unwrap_or(0)
JsonStart(text) ==
    LET S == {i \in 1..Len(text) : text[i] = "{"}
    IN  IF S = {} THEN 0 ELSE SetMin(S) - 1

\* raw.rfind('}').map(|i| i + 1).unwrap_or(raw.len())
JsonEnd(text) ==
    LET S == {i \in 1..Len(text) : text[i] = "}"}
    IN  IF S = {} THEN Len(text) ELSE (SetMax(S) - 1) + 1

\* &raw[json_start..json_end] panics when json_start > json_end.
SlicePanics(text) == JsonStart(text) > JsonEnd(text)

JsonStr(text) == SubSeq(text, JsonStart(text) + 1, JsonEnd(text))

\* #[derive(Default)] ParsedResponse
DefaultParsed ==
    [document_type |-> None, confidence |-> None, vin |-> None, year |-> None,
     make |-> None, model |-> None, owner_name |-> None, mileage |-> None,
     price |-> None, date |-> None]

\* serde_json::from_str::<ParsedResponse>: an object of distinct members
\* separated by commas and nothing else; Err otherwise.
IsObject(ts) ==
    /\ Len(ts) >= 2 /\ ts[1] = "{" /\ ts[Len(ts)] = "}"
    /\ LET inner == SubSeq(ts, 2, Len(ts) - 1)
       IN  \/ inner = <<>>
           \/ /\ Len(inner) % 2 = 1
              /\ \A i \in 1..Len(inner) :
                    IF i % 2 = 1 THEN inner[i] \in Members ELSE inner[i] = ","
              /\ \A i, j \in 1..Len(inner) : (i # j /\ i % 2 = 1 /\ j % 2 = 1)
                                                => inner[i] # inner[j]

FromStr(ts) ==
    IF IsObject(ts)
    THEN Some([DefaultParsed EXCEPT
                 !.document_type = IF "T" \in Range(ts) THEN Some("title") ELSE None,
                 !.vin = IF "V" \in Range(ts) THEN Some("V1") ELSE None,
                 !.confidence = IF "C" \in Range(ts) THEN Some(MemberConfidence) ELSE None])
    ELSE None

\* serde_json::from_str(json_str).unwrap_or_default()
Parsed(text) ==
    IF FromStr(JsonStr(text)) = None THEN DefaultParsed ELSE FromStr(JsonStr(text))[1]

UnwrapOr(opt, default) == IF opt = None THEN default ELSE opt[1]

\* Ok(ExtractionResult { .. })
ExtractionOf(text) ==
    LET parsed == Parsed(text) IN
    [kind |-> "Ok",
     document_type |-> UnwrapOr(parsed.document_type, "unknown"),
     confidence |-> UnwrapOr(parsed.confidence, DefaultConfidence),
     extracted |-> [vin |-> parsed.vin, year |-> parsed.year, make |-> parsed.make,
                    model |-> parsed.model, owner_name |-> parsed.owner_name,
                    mileage |-> parsed.mileage, price |-> parsed.price,
                    date |-> parsed.date],
     raw_response |-> text]

DocErr ==
    [kind |-> "Err", document_type |-> "", confidence |-> 0,
     extracted |-> <<>>, raw_response |-> <<>>]

DocInit ==
    /\ raw = <<>>
    /\ dpc = "read"
    /\ dresult = <<>>
    /\ DocOthersIdle

\* std::fs::read(&path).map_err(..)?
DocRead ==
    /\ dpc = "read"
    /\ \E ok \in BOOLEAN :
        IF ok THEN dpc' = "send" /\ dresult' = dresult
        ELSE dpc' = "done" /\ dresult' = Some(DocErr)
    /\ UNCHANGED <<raw, docOthers>>

\* client.post(..).send().await.map_err(..)? and resp.json().await.map_err(..)?
DocSend ==
    /\ dpc = "send"
    /\ \/ /\ \E text \in RawTexts : raw' = text
          /\ dpc' = "parse"
          /\ dresult' = dresult
       \/ /\ dpc' = "done"
          /\ dresult' = Some(DocErr)
          /\ raw' = raw
    /\ UNCHANGED docOthers

\* From let raw = &ollama_resp.response to the returned ExtractionResult.
DocParse ==
    /\ dpc = "parse"
    /\ IF SlicePanics(raw)
       THEN dpc' = "panicked" /\ dresult' = dresult
       ELSE dpc' = "done" /\ dresult' = Some(ExtractionOf(raw))
    /\ UNCHANGED <<raw, docOthers>>

DocNext == DocRead \/ DocSend \/ DocParse

SpecDoc == DocInit /\ [][DocNext]_vars

(***************************************************************************)
(* Properties of process_document.                                         *)
(***************************************************************************)
\* The text from the first "{" to the last "}", when there is one.
Braced(text) ==
    LET O == {i \in 1..Len(text) : text[i] = "{"}
        C == {i \in 1..Len(text) : text[i] = "}"}
    IN  IF O # {} /\ C # {} /\ SetMin(O) < SetMax(C)
        THEN SubSeq(text, SetMin(O), SetMax(C)) ELSE <<>>

DocDefaults(r) ==
    /\ r.document_type = "unknown" /\ r.confidence = 3
    /\ \A f \in DOMAIN r.extracted : r.extracted[f] = None

\* C9: whatever the response text, process_document returns a result and is
\* never stopped: if the text from the first "{" to the last "}" parses, the
\* result carries the parsed fields, and otherwise the defaults (document_type
\* "unknown", confidence 0.3, every extracted field null).
C9_TolerantParse ==
    /\ dpc # "panicked"
    /\ (dpc = "done" /\ dresult[1].kind = "Ok") =>
          IF IsObject(Braced(raw))
          THEN /\ dresult[1].extracted.vin = (IF "V" \in Range(Braced(raw)) THEN Some("V1") ELSE None)
               /\ dresult[1].document_type = (IF "T" \in Range(Braced(raw)) THEN "title" ELSE "unknown")
               /\ dresult[1].confidence = (IF "C" \in Range(Braced(raw)) THEN 9 ELSE 3)
          ELSE DocDefaults(dresult[1])

\* What holds of the calls that do return.
DocResultWhenReturned ==
    (dpc = "done" /\ dresult[1].kind = "Ok") =>
          IF IsObject(Braced(raw))
          THEN /\ dresult[1].extracted.vin = (IF "V" \in Range(Braced(raw)) THEN Some("V1") ELSE None)
               /\ dresult[1].document_type = (IF "T" \in Range(Braced(raw)) THEN "title" ELSE "unknown")
               /\ dresult[1].confidence = (IF "C" \in Range(Braced(raw)) THEN 9 ELSE 3)
          ELSE DocDefaults(dresult[1])

DocParsedInsideProse ==
    /\ dpc = "done" /\ raw = <<"x", "{", "V", "}", "x">>
    /\ dresult[1].kind = "Ok" /\ dresult[1].extracted.vin = Some("V1")

DocCloseBeforeOpen == dpc = "panicked" /\ raw = <<"}", "x", "{">>

(***************************************************************************)
(* AppState, configure_supabase and sync_to_supabase.  Commands run        *)
(* concurrently on the async runtime; procs[p] is the command invocation   *)
(* slot p is running, or the one it ran last.  A stored url or key is      *)
(* represented by the number of the configure_supabase call that wrote it. *)
(* url_lock and key_lock hold the slot that owns the mutex, or 0.  An      *)
(* extraction is represented by whether its extracted.vin is set.  When a  *)
(* command returns, its locals are dropped: the slot keeps cmd, result and *)
(* the number of requests the call sent.                                   *)
(***************************************************************************)
Procs == 1..NumProcs

ExtractionLists == UNION {[1..n -> BOOLEAN] : n \in 0..MaxExtractions}

NotConfigured == "Supabase not configured"

IdleProc ==
    [pc |-> "idle", cmd |-> "none", call |-> 0, extractions |-> <<>>, idx |-> 1,
     synced |-> 0, sent |-> 0, base_url |-> None, api_key |-> None, result |-> None]

OkResult(n) == [kind |-> "Ok", synced |-> n, error |-> ""]
ErrResult(e) == [kind |-> "Err", synced |-> 0, error |-> e]

\* The slot of a command that has returned r.
Returned(proc, r) ==
    [IdleProc EXCEPT !.cmd = proc.cmd, !.sent = proc.sent, !.result = Some(r)]

ConfiguredUrlOnly(url, key) == url # None

\* url.as_ref().ok_or(..)? and key.as_ref().ok_or(..)? both pass.
Configured(url, key) == url # None /\ key # None

\* main: .manage(AppState { supabase_url: Mutex::new(None), supabase_key: Mutex::new(None) })
SupaInit ==
    /\ supabase_url = None
    /\ supabase_key = None
    /\ url_lock = 0
    /\ key_lock = 0
    /\ procs = [p \in Procs |-> IdleProc]
    /\ ncmds = 0
    /\ completed = 0
    /\ SupaOthersIdle

\* The UI invokes configure_supabase(url, key).
InvokeConfigure ==
    \E p \in Procs :
        /\ procs[p].pc = "idle"
        /\ ncmds < MaxCommands
        /\ ncmds' = ncmds + 1
        /\ procs' = [procs EXCEPT ![p] =
                        [IdleProc EXCEPT !.pc = "cfg_url", !.cmd = "configure",
                                         !.call = ncmds + 1]]
        /\ UNCHANGED <<supabase_url, supabase_key, url_lock, key_lock, completed, supaOthers>>

\* *state.supabase_url.lock().await = Some(url);
ConfigureUrl ==
    \E p \in Procs :
        /\ procs[p].pc = "cfg_url"
        /\ url_lock = 0
        /\ supabase_url' = Some(procs[p].call)
        /\ procs' = [procs EXCEPT ![p].pc = "cfg_key"]
        /\ UNCHANGED <<supabase_key, url_lock, key_lock, ncmds, completed, supaOthers>>

\* *state.supabase_key.lock().await = Some(key); Ok(())
ConfigureKey ==
    \E p \in Procs :
        /\ procs[p].pc = "cfg_key"
        /\ key_lock = 0
        /\ supabase_key' = Some(procs[p].call)
        /\ procs' = [procs EXCEPT ![p] = Returned(procs[p], OkResult(0))]
        /\ completed' = completed + 1
        /\ UNCHANGED <<supabase_url, url_lock, key_lock, ncmds, supaOthers>>

\* The UI invokes sync_to_supabase(extractions).
InvokeSync ==
    \E p \in Procs :
        /\ procs[p].pc = "idle"
        /\ ncmds < MaxCommands
        /\ ncmds' = ncmds + 1
        /\ \E xs \in ExtractionLists :
            procs' = [procs EXCEPT ![p] =
                        [IdleProc EXCEPT !.pc = "lock_url", !.cmd = "sync",
                                         !.extractions = xs]]
        /\ UNCHANGED <<supabase_url, supabase_key, url_lock, key_lock, completed, supaOthers>>

\* let url = state.supabase_url.lock().await;
SupaLockUrl ==
    \E p \in Procs :
        /\ procs[p].pc = "lock_url"
        /\ url_lock = 0
        /\ url_lock' = p
        /\ procs' = [procs EXCEPT ![p].pc = "lock_key"]
        /\ UNCHANGED <<supabase_url, supabase_key, key_lock, ncmds, completed, supaOthers>>

\* let key = state.supabase_key.lock().await;
SupaLockKey ==
    \E p \in Procs :
        /\ procs[p].pc = "lock_key"
        /\ key_lock = 0
        /\ key_lock' = p
        /\ procs' = [procs EXCEPT ![p].pc = "check"]
        /\ UNCHANGED <<supabase_url, supabase_key, url_lock, ncmds, completed, supaOthers>>

\* let base_url = ..ok_or("Supabase not configured")?; let api_key = ..?;
\* an early return drops both guards.
SupaCheck ==
    \E p \in Procs :
        /\ procs[p].pc = "check"
        /\ IF Configured(supabase_url, supabase_key)
           THEN /\ procs' = [procs EXCEPT ![p].pc = "loop",
                                          ![p].base_url = supabase_url,
                                          ![p].api_key = supabase_key]
                /\ UNCHANGED <<url_lock, key_lock>>
           ELSE /\ procs' = [procs EXCEPT ![p] = Returned(procs[p], ErrResult(NotConfigured))]
                /\ url_lock' = 0
                /\ key_lock' = 0
        /\ UNCHANGED <<supabase_url, supabase_key, ncmds, completed, supaOthers>>

\* if extraction.extracted.vin.is_none() { continue; }
SupaSkip ==
    \E p \in Procs :
        /\ procs[p].pc = "loop"
        /\ procs[p].idx <= Len(procs[p].extractions)
        /\ ~procs[p].extractions[procs[p].idx]
        /\ procs' = [procs EXCEPT ![p].idx = @ + 1]
        /\ UNCHANGED <<supabase_url, supabase_key, url_lock, key_lock, ncmds, completed,
                       supaOthers>>

\* client.post(..import_queue).. .send().await; if resp.is_ok() { synced += 1; }
SupaPost ==
    \E p \in Procs :
        /\ procs[p].pc = "loop"
        /\ procs[p].idx <= Len(procs[p].extractions)
        /\ procs[p].extractions[procs[p].idx]
        /\ \E ok \in BOOLEAN :
            procs' = [procs EXCEPT ![p].idx = @ + 1,
                                   ![p].sent = @ + 1,
                                   ![p].synced = IF ok THEN @ + 1 ELSE @]
        /\ UNCHANGED <<supabase_url, supabase_key, url_lock, key_lock, ncmds, completed,
                       supaOthers>>

\* Ok(synced); the guards are dropped.
SupaReturn ==
    \E p \in Procs :
        /\ procs[p].pc = "loop"
        /\ procs[p].idx > Len(procs[p].extractions)
        /\ procs' = [procs EXCEPT ![p] = Returned(procs[p], OkResult(procs[p].synced))]
        /\ url_lock' = 0
        /\ key_lock' = 0
        /\ UNCHANGED <<supabase_url, supabase_key, ncmds, completed, supaOthers>>

SupaNext ==
    \/ InvokeConfigure \/ ConfigureUrl \/ ConfigureKey
    \/ InvokeSync \/ SupaLockUrl \/ SupaLockKey \/ SupaCheck
    \/ SupaSkip \/ SupaPost \/ SupaReturn

SpecSupa == SupaInit /\ [][SupaNext]_vars

SupaSyncPosted ==
    \E p \in Procs : procs[p].cmd = "sync" /\ procs[p].pc = "idle" /\ procs[p].sent = 1

\* C12: under every interleaving, the url and key a sync_to_supabase call
\* reads under its two guards were written by the same configure_supabase
\* call (or are both unset): it never reads a url that is set with a key that
\* is unset, and the base_url and api_key it sends requests with never come
\* from two different configurations.
C12_CredentialsFromOneConfigure ==
    \A p \in Procs :
        /\ (procs[p].cmd = "sync" /\ procs[p].pc = "check")
              => supabase_url = supabase_key
        /\ (procs[p].cmd = "sync" /\ procs[p].pc = "loop")
              => procs[p].base_url = procs[p].api_key

\* A sync holding both guards reads the url of a configure_supabase call whose
\* key has not been written yet.
SupaUrlWithoutKey ==
    \E p \in Procs :
        /\ procs[p].cmd = "sync" /\ procs[p].pc = "check"
        /\ url_lock = p /\ key_lock = p
        /\ supabase_url # None /\ supabase_key = None

\* A sync sends a request with the url of the second configuration and the
\* key of the first.
SupaMixedCredentials ==
    \E p \in Procs :
        /\ procs[p].cmd = "sync" /\ procs[p].pc = "loop" /\ procs[p].sent = 1
        /\ procs[p].base_url = Some(2) /\ procs[p].api_key = Some(1)

\* What the two guards do give: once both guards are held, nothing changes the stored
\* url or key until the sync returns, and a sync in its loop uses the values
\* that are stored.
SupaGuardsHoldValues ==
    \A p \in Procs :
        (procs[p].cmd = "sync" /\ procs[p].pc = "loop") =>
            /\ url_lock = p /\ key_lock = p
            /\ procs[p].base_url = supabase_url
            /\ procs[p].api_key = supabase_key

(***************************************************************************)
(* sync_to_cloud.  A ScanResult is represented by whether it carries a     *)
(* potential_vehicle; its identity is its index in files.  A request is    *)
(* the list of indices whose records were put in the payload, with the     *)
(* outcome the remote end gave it.                                         *)
(***************************************************************************)
Outcomes == {"success", "status_error", "transport_error"}

\* files.chunks(batch_size): the indices of the chunk that starts at p.
Chunk(fs, p, b) == [j \in 1..(Min(p + b - 1, Len(fs)) - p + 1) |-> p + j - 1]

VehiclesUnfiltered(fs, batch) == batch

\* batch.iter().filter_map(|f| f.potential_vehicle.as_ref().map(..)).collect()
Vehicles(fs, batch) == SelectSeq(batch, LAMBDA i : fs[i])

\* Ok(resp) if resp.status().is_success() => synced += vehicles.len()
SyncedAfter(n, vehicles, outcome) ==
    IF outcome = "success" THEN n + Len(vehicles) ELSE n

FailedAfterPerRequest(n, vehicles, outcome) ==
    IF outcome = "success" THEN n ELSE n + 1

\* both failure arms: failed += vehicles.len()
FailedAfter(n, vehicles, outcome) ==
    IF outcome = "success" THEN n ELSE n + Len(vehicles)

\* errors.push(format!("Batch failed: {}", ..)) / errors.push(format!("Request error: {}", ..))
ErrorsAfter(errs, outcome) ==
    CASE outcome = "success" -> errs
      [] outcome = "status_error" -> Append(errs, "Batch failed")
      [] outcome = "transport_error" -> Append(errs, "Request error")

SyncInit ==
    /\ files \in UNION {[1..n -> BOOLEAN] : n \in 0..MaxFiles}
    /\ batch_size \in 0..MaxBatch
    /\ spc = "call"
    /\ pos = 1
    /\ synced = 0
    /\ failed = 0
    /\ errors = <<>>
    /\ requests = <<>>
    /\ report = None
    /\ SyncOthersIdle

\* Entry up to the construction of the chunks iterator; slice::chunks
\* panics when the chunk size is 0.
SyncEnter ==
    /\ spc = "call"
    /\ spc' = IF batch_size = 0 THEN "panicked" ELSE "loop"
    /\ UNCHANGED <<files, batch_size, pos, synced, failed, errors, requests, report, syncOthers>>

\* One iteration whose filtered chunk is empty: continue.
SyncSkipChunk ==
    /\ spc = "loop"
    /\ pos <= Len(files)
    /\ Vehicles(files, Chunk(files, pos, batch_size)) = <<>>
    /\ pos' = pos + batch_size
    /\ UNCHANGED <<files, batch_size, spc, synced, failed, errors, requests, report, syncOthers>>

\* One iteration that posts the chunk and books the response.
SyncDispatch ==
    /\ spc = "loop"
    /\ pos <= Len(files)
    /\ LET vehicles == Vehicles(files, Chunk(files, pos, batch_size)) IN
        /\ vehicles # <<>>
        /\ \E outcome \in Outcomes :
            /\ requests' = Append(requests, [vehicles |-> vehicles, outcome |-> outcome])
            /\ synced' = SyncedAfter(synced, vehicles, outcome)
            /\ failed' = FailedAfter(failed, vehicles, outcome)
            /\ errors' = ErrorsAfter(errors, outcome)
    /\ pos' = pos + batch_size
    /\ UNCHANGED <<files, batch_size, spc, report, syncOthers>>

\* The iterator is exhausted: Ok(json!({synced, failed, errors})).
SyncReturn ==
    /\ spc = "loop"
    /\ pos > Len(files)
    /\ spc' = "done"
    /\ report' = Some([synced |-> synced, failed |-> failed, errors |-> errors])
    /\ UNCHANGED <<files, batch_size, pos, synced, failed, errors, requests, syncOthers>>

SyncNext == SyncEnter \/ SyncSkipChunk \/ SyncDispatch \/ SyncReturn

SpecSync == SyncInit /\ [][SyncNext]_vars

(***************************************************************************)
(* Properties of sync_to_cloud.                                            *)
(***************************************************************************)
RECURSIVE SumLens(_)
SumLens(rs) == IF rs = <<>> THEN 0 ELSE Len(Head(rs).vehicles) + SumLens(Tail(rs))

HintedCount == Cardinality({i \in 1..Len(files) : files[i]})

\* The hinted indices whose 0-based position, divided by the batch size, is k.
HintedOfChunk(k) ==
    SelectSeq([i \in 1..Len(files) |-> i],
              LAMBDA i : files[i] /\ (i - 1) \div batch_size = k)

NumChunks == (Len(files) + batch_size - 1) \div batch_size

\* What a run to completion has to post: the non-empty HintedOfChunk(k), in order.
ExpectedPayloads ==
    LET all == [k \in 1..NumChunks |-> HintedOfChunk(k - 1)]
    IN  SelectSeq(all, LAMBDA p : p # <<>>)

Payloads == [r \in 1..Len(requests) |-> requests[r].vehicles]

OkRequests == SelectSeq(requests, LAMBDA r : r.outcome = "success")
BadRequests == SelectSeq(requests, LAMBDA r : r.outcome # "success")

ExpectedErrors ==
    [r \in 1..Len(BadRequests) |->
        IF BadRequests[r].outcome = "status_error" THEN "Batch failed" ELSE "Request error"]

\* C1: with batch_size >= 1, a finished sync_to_cloud has posted the hinted
\* items of the consecutive batch_size-chunks, synced is the item count of the
\* successful requests, failed that of the failed ones, their sum is the
\* number of hinted inputs, and 7 hinted items in batches of 3 with only the
\* second request failing report synced 4, failed 3 and one error.
C1_SyncAccounting ==
    (spc = "done" /\ batch_size >= 1) =>
        /\ Payloads = ExpectedPayloads
        /\ report[1].synced = SumLens(OkRequests)
        /\ report[1].failed = SumLens(BadRequests)
        /\ report[1].synced + report[1].failed = HintedCount
        /\ Len(report[1].errors) = Len(BadRequests)
        /\ ( /\ Len(files) = 7 /\ HintedCount = 7 /\ batch_size = 3
             /\ Len(requests) = 3
             /\ requests[1].outcome = "success"
             /\ requests[2].outcome # "success"
             /\ requests[3].outcome = "success" )
           => /\ [r \in 1..3 |-> Len(requests[r].vehicles)] = <<3, 3, 1>>
              /\ report[1].synced = 4 /\ report[1].failed = 3 /\ Len(report[1].errors) = 1

C1_Witness ==
    /\ spc = "done" /\ batch_size = 3 /\ Len(files) = 7 /\ HintedCount = 7
    /\ [r \in 1..Len(requests) |-> requests[r].outcome]
           = <<"success", "transport_error", "success">>
    /\ report = Some([synced |-> 4, failed |-> 3, errors |-> <<"Request error">>])

\* C2: no request payload ever holds an item without a potential_vehicle (nor
\* is a payload empty), and an iteration over a chunk none of whose items has
\* a hint posts nothing and leaves synced, failed and errors as they were.
C2_HintlessNeverSent ==
    /\ [](\A r \in 1..Len(requests) :
            /\ requests[r].vehicles # <<>>
            /\ \A j \in 1..Len(requests[r].vehicles) : files[requests[r].vehicles[j]])
    /\ [][ ( /\ spc = "loop" /\ pos <= Len(files)
             /\ \A i \in pos..Min(pos + batch_size - 1, Len(files)) : ~files[i] )
           => UNCHANGED <<requests, synced, failed, errors>> ]_vars

C2_Witness ==
    /\ spc = "done" /\ batch_size = 2 /\ Len(files) = 4
    /\ files = <<TRUE, FALSE, FALSE, FALSE>>
    /\ Payloads = <<(<<1>>)>>

\* C3: sync_to_cloud always returns its report, and a finished call has posted
\* every chunk that holds a hinted item exactly once, in input order, with one
\* error entry per failed request in request order.
C3_NoEarlyStopAlwaysReturns ==
    /\ spc # "panicked"
    /\ spc = "done" =>
        /\ Payloads = ExpectedPayloads
        /\ report[1].errors = ExpectedErrors

\* The part of C3 that does not depend on the call returning.
SyncEveryChunkOnce ==
    (spc = "done") => (Payloads = ExpectedPayloads /\ report[1].errors = ExpectedErrors)

SyncFailureThenMore ==
    /\ spc = "done" /\ Len(requests) = 3
    /\ requests[1].outcome = "status_error" /\ requests[3].outcome = "success"

\* C8: for every files list and every batch_size, 0 and the empty list
\* included, the call ends by returning Ok(report): it is never stopped by a
\* panic.
C8_AlwaysOkReport ==
    (spc \notin {"call", "loop"}) => (spc = "done" /\ report # None)

SyncEmptyInputReturns ==
    spc = "done" /\ files = <<>> /\ report = Some([synced |-> 0, failed |-> 0, errors |-> <<>>])

(***************************************************************************)
(* Properties of extract_vehicle_hints.                                    *)
(***************************************************************************)
ExamplePath ==
    <<"/">> \o Tok1969 \o <<"_">> \o TokCorvette \o <<"_">> \o TokVinMixed \o ExtJpg

\* A word-bounded run of 17 characters of the VIN alphabet in the path as given.
HasVinToken(path) == \E i \in 1..Len(path) : VinAt(path, i)

\* C6: for the path /1969_Corvette_1G1YY22G965109876.jpg the function returns
\* year and make absent, model CORVETTE, vin the 17-character token and
\* confidence 0.8; and whenever the path holds a word-bounded 17-character
\* token over the VIN alphabet, the returned hint has a vin and the 0.5 it adds.
C6_VinReported ==
    (hpc = "done") =>
        /\ (hpath = ExamplePath) =>
              /\ hresult # None
              /\ hresult[1].year = None /\ hresult[1].make = None
              /\ hresult[1].model = Some(ToUppercase(TokCorvette))
              /\ hresult[1].vin # None
              /\ ToUppercase(hresult[1].vin[1]) = TokVinMixed
              /\ hresult[1].confidence = 8
        /\ HasVinToken(hpath) =>
              /\ hresult # None
              /\ hresult[1].vin # None
              /\ hresult[1].confidence >= 5

\* What the code returns for the path of C6.
HintExampleActual ==
    (hpc = "done" /\ hpath = ExamplePath) =>
        hresult = Some([year |-> None, make |-> None,
                        model |-> Some(ToUppercase(TokCorvette)), vin |-> None,
                        confidence |-> 3, source |-> "filename"])

Weight(field, w) == IF field # None THEN w ELSE 0

\* C7: a hint is returned exactly when the year pattern, a make, a model or
\* the VIN pattern was found in the lower-cased path; a returned hint's
\* confidence is the sum of 0.3, 0.3, 0.3, 0.5 (in tenths) over its set fields,
\* so between 0.1 and 1.4, its source is "filename", and not all four fields
\* are absent.
C7_HintIffSignal ==
    (hpc = "done") =>
        /\ (hresult # None) <=>
              \/ YearMatch(full_path) # None
              \/ (\E k \in 1..Len(makes) : Contains(full_path, makes[k]))
              \/ (\E k \in 1..Len(models) : Contains(full_path, models[k]))
              \/ VinMatch(full_path) # None
        /\ (hresult # None) =>
              LET h == hresult[1] IN
              /\ h.confidence = Weight(h.year, 3) + Weight(h.make, 3)
                                  + Weight(h.model, 3) + Weight(h.vin, 5)
              /\ h.confidence > 0 /\ h.confidence <= 14
              /\ h.source = "filename"
              /\ ~(h.year = None /\ h.make = None /\ h.model = None /\ h.vin = None)

C7_Witness ==
    /\ hpc = "done" /\ hresult # None
    /\ hresult[1].confidence = 14
    /\ hresult[1].year # None /\ hresult[1].make # None
    /\ hresult[1].model # None /\ hresult[1].vin # None

HintNoSignal == hpc = "done" /\ hresult = None

\* The alphabet a VIN is written in: A-H, J-N, P, R-Z and 0-9.
VinAlphabet ==
    {"A", "B", "C", "D", "E", "F", "G", "H", "J", "K", "L", "M", "N", "P",
     "R", "S", "T", "U", "V", "W", "X", "Y", "Z",
     "0", "1", "2", "3", "4", "5", "6", "7", "8", "9"}

\* v stands in path as a run delimited by word boundaries.
IsBoundedRun(path, v) ==
    \E i \in 1..Len(path) :
        /\ i + Len(v) - 1 <= Len(path)
        /\ SubSeq(path, i, i + Len(v) - 1) = v
        /\ WordBoundary(path, i - 1)
        /\ WordBoundary(path, i + Len(v) - 1)

\* C11: for every path, a vin in the returned hint is a run of exactly 17
\* characters of the path, delimited by word boundaries, every character from
\* A-H, J-N, P, R-Z, 0-9; so a token holding I, O or Q (in either case) is
\* never the reported vin, and the 0.5 of the VIN is in the confidence only
\* when such a vin is reported.
C11_VinNeverIOQ ==
    (hpc = "done" /\ hresult # None) =>
        LET h == hresult[1] IN
        /\ (h.vin # None) =>
              /\ Len(h.vin[1]) = 17
              /\ Range(h.vin[1]) \subseteq VinAlphabet
              /\ Range(ToUppercase(h.vin[1])) \cap {"I", "O", "Q"} = {}
              /\ IsBoundedRun(hpath, h.vin[1])
              /\ h.vin[1] # ToLowercase(TokVinIOQ)
        /\ (h.vin = None) =>
              h.confidence = Weight(h.year, 3) + Weight(h.make, 3) + Weight(h.model, 3)

\* A path with the token 1O1YQ22I965109876 and an all-digit token, both
\* delimited by word boundaries: only the second is reported.
C11_Witness ==
    /\ hpc = "done" /\ hresult # None
    /\ IsBoundedRun(hpath, TokVinIOQ)
    /\ hresult[1].vin = Some(TokVinDigits)
    /\ hresult[1].confidence = 5

\* A path whose only 17-character token holds I, O and Q: no vin, no 0.5.
HintIOQTokenIgnored ==
    /\ hpc = "done"
    /\ hpath = <<"/">> \o TokVinIOQ \o <<"_">> \o Tok1969 \o ExtJpg
    /\ hresult = None

====
